---- MODULE Spec2Model ----
\* Model of mod_auth/controllers.py: the signed-link token protocol (password
\* reset, signup confirmation) and the access-control decorators.
\*
\* Text values (URL parameters, emails, password hashes, MACs, MAC messages)
\* are sequences of one-character strings, so that "%s|%s|%s" formatting,
\* str(int) and int(str) are computed and not assumed.
EXTENDS Integers, Sequences, FiniteSets, TLC

\* ---------------------------------------------------------------- bounds
MaxDays == 1          \* validity periods the clock runs through
MaxUsers == 4         \* rows of the user table
MaxNonce == 2         \* fresh salts / random passwords drawn
MaxLinks == 1         \* reset and signup links computed

\* ------------------------------------------------------- program constants
Validity == 86400     \* seconds a link stays valid

\* ------------------------------------------------------------------ text
DigitChars == <<"0", "1", "2", "3", "4", "5", "6", "7", "8", "9">>
Bar == <<"|">>

IsDigit(ch) == \E i \in 1..10 : DigitChars[i] = ch
DigitVal(ch) == CHOOSE d \in 0..9 : DigitChars[d + 1] = ch

\* str(n) / "%s" % n for a non-negative integer
RECURSIVE Str(_)
Str(n) == IF n < 10 THEN <<DigitChars[n + 1]>>
          ELSE Str(n \div 10) \o <<DigitChars[(n % 10) + 1]>>

RECURSIVE LStrip(_)
LStrip(s) == IF s # <<>> /\ Head(s) = " " THEN LStrip(Tail(s)) ELSE s

RECURSIVE RStrip(_)
RStrip(s) == IF s # <<>> /\ s[Len(s)] = " " THEN RStrip(SubSeq(s, 1, Len(s) - 1)) ELSE s

AllDigits(s) == s # <<>> /\ \A i \in 1..Len(s) : IsDigit(s[i])

RECURSIVE DigitsVal(_)
DigitsVal(s) == IF s = <<>> THEN 0
                ELSE 10 * DigitsVal(SubSeq(s, 1, Len(s) - 1)) + DigitVal(s[Len(s)])

\* int(s): surrounding blanks and one sign are accepted, anything else raises
\* ValueError (ok = FALSE).
ParseInt(s) ==
    LET t == RStrip(LStrip(s))
        signed == t # <<>> /\ Head(t) \in {"+", "-"}
        d == IF signed THEN Tail(t) ELSE t
    IN  IF AllDigits(d)
        THEN [ok |-> TRUE,
              v |-> IF signed /\ Head(t) = "-" THEN 0 - DigitsVal(d) ELSE DigitsVal(d)]
        ELSE [ok |-> FALSE, v |-> 0]

\* "%s|%s|%s" % (a, b, c) and "%s|%s" % (a, b)
Fmt3(a, b, c) == a \o Bar \o b \o Bar \o c
Fmt2(a, b) == a \o Bar \o b

\* --------------------------------------------------------- configuration
HMAC_KEY == <<"k">>

\* hmac.new(key, msg).hexdigest(): an ideal MAC, one distinct digest per
\* (key, message); nobody computes it without the key.
Hexdigest(key, msg) == <<"#">> \o key \o <<"#">> \o msg

\* ------------------------------------------------------------ the model's
\* users, values and inputs
Clients == {"c1", "c2"}
Roles == {"admin", "user", "tester"}
None == 0             \* g.user when no row matches; ids start at 1
Absent == 0           \* session without 'user_id' (session.get('user_id', 0))

EmailA == <<"a", "@", "x">>
EmailU == <<"u", "@", "x">>
EmailN == <<"n", "@", "x">>
EmailBad == <<"b", "a", "d">>
Name1 == <<"N">>
Name2 == <<"M">>
Pw1 == <<"p", "a", "s", "s", "w", "o", "r", "d", "0", "1">>
Pw2 == <<"p", "a", "s", "s", "w", "o", "r", "d", "0", "2">>
Short == <<>>
Garbage == <<"d", "e", "a", "d">>
NotANumber == <<"a", "b", "c">>

\* User.generate_hash(password): salted, so every call yields a new value
generate_hash(password, salt) == <<"$">> \o Str(salt) \o <<"$">> \o password
\* User.create_random_password(16)
create_random_password(salt) == <<"r">> \o Str(salt)
\* mutant: every password is taken for the right one
is_password_valid_any(hash, password) == TRUE
\* user.is_password_valid(password)
is_password_valid(hash, password) ==
    \E salt \in 0..MaxNonce + 1 : hash = generate_hash(password, salt)

\* compare_digest: whether the hmac module of the Python the application runs
\* on has compare_digest (it came with 2.7.7). log: what the application has
\* logged.
VARIABLES db, session, now, mails, nonce, req, last, compare_digest, log
vars == <<db, session, now, mails, nonce, req, last, compare_digest, log>>

Ids == 1..Len(db)

\* ------------------------------------------------------ store and session
\* User.query.filter_by(id=uid).first(): uid is the URL text, which the
\* database casts to the integer column's type
QueryById(uid) ==
    LET p == ParseInt(uid) IN IF p.ok /\ p.v \in Ids THEN p.v ELSE None

\* User.query.filter_by(email=email).first()
QueryByEmail(email) ==
    IF \E i \in Ids : db[i].email = email
    THEN CHOOSE i \in Ids : db[i].email = email /\ \A j \in Ids : db[j].email = email => i <= j
    ELSE None

\* before_app_request: g.user for the request of client c
before_app_request(c) ==
    LET user_id == IF session[c] = Absent THEN 0 ELSE session[c]
    IN  IF user_id \in Ids THEN user_id ELSE None

\* mutant: the decorator lets everybody through
login_required_off(c) == FALSE
\* login_required: TRUE when the decorator redirects instead of calling f
login_required(c) == before_app_request(c) = None

\* the order of the roles: user < tester < admin
RoleRank(r) == CASE r = "user" -> 1 [] r = "tester" -> 2 [] r = "admin" -> 3
\* mutant: a role at least as high as one of the listed roles passes
check_access_rights_threshold(c, roles) ==
    \E r \in roles : RoleRank(db[before_app_request(c)].role) >= RoleRank(r)
\* mutant: a tester passes whatever roles are listed
check_access_rights_tester(c, roles) ==
    db[before_app_request(c)].role \in roles \cup {"tester"}
\* mutant: any logged-in user passes
check_access_rights_any(c, roles) == TRUE
\* check_access_rights(roles): g.user.role in roles
check_access_rights(c, roles) == db[before_app_request(c)].role \in roles

\* Python's == between values of possibly different types: an int never
\* equals a text
PyEq(a, b) == a.t = b.t /\ a.v = b.v
PyInt(n) == [t |-> "int", v |-> n]
PyStr(s) == [t |-> "unicode", v |-> s]

\* g.user.id == uid or g.user.role == Role.admin
SelfOrAdmin(c, uid) ==
    \/ PyEq(PyInt(before_app_request(c)), PyStr(uid))
    \/ db[before_app_request(c)].role = "admin"

\* --------------------------------------------------------------- responses
\* last is the latest response: who asked for what (URL arguments), the
\* submitted form when the handler read one, and what came back
NoForm == <<>>
Response(c, op, args, form, status, location, flash, trace) ==
    [c |-> c, op |-> op, args |-> args, form |-> form, status |-> status,
     location |-> location, flash |-> flash, trace |-> trace]

\* req[c]: a request of client c that has passed its checks and has not yet
\* written (user: the row it loaded, seen: the hash that row held)
Idle == [op |-> "idle"]

\* ------------------------------------------------------------------ mails
\* mails is the set of messages handed to g.mailer.send_simple_message; what
\* the mailer answers is an input of the request (ok).
\* A link mail also records, for the properties only, the user it was made
\* for (usr), the clock (at) and the stored hash (pw) when it was made.
NoLink == [uid |-> <<>>, email |-> <<>>, expires |-> <<>>, mac |-> <<>>,
           usr |-> 0, at |-> 0, pw |-> <<>>]
Mail(kind, to, link) == [kind |-> kind, to |-> to, link |-> link]
ResetLinks == {m.link : m \in {x \in mails : x.kind = "recovery_link"}}
SignupLinks == {m.link : m \in {x \in mails : x.kind = "registration_email"}}
LinkMails == {m \in mails : m.link # NoLink}
CanIssue == Cardinality(LinkMails) < MaxLinks

\* mutant: the link is good for a second more than the validity
ResetLinkForLong(usr) ==
    LET expires == now + Validity + 1
        mac == Hexdigest(HMAC_KEY, Fmt3(Str(usr), Str(expires), db[usr].password))
    IN  [uid |-> Str(usr), email |-> <<>>, expires |-> Str(expires), mac |-> mac,
         usr |-> usr, at |-> now, pw |-> db[usr].password]
\* send_reset_email(usr): the link it renders
ResetLinkFor(usr) ==
    LET expires == now + Validity
        mac == Hexdigest(HMAC_KEY, Fmt3(Str(usr), Str(expires), db[usr].password))
    IN  [uid |-> Str(usr), email |-> <<>>, expires |-> Str(expires), mac |-> mac,
         usr |-> usr, at |-> now, pw |-> db[usr].password]

send_reset_email(usr) == Mail("recovery_link", {db[usr].email}, ResetLinkFor(usr))

\* ------------------------------------------------------------------- Init
Init ==
    /\ db = << [name |-> Name1, email |-> EmailA, password |-> generate_hash(Pw1, 0), role |-> "admin"],
               [name |-> Name1, email |-> EmailU, password |-> generate_hash(Pw1, 0), role |-> "user"] >>
    /\ session = [c \in Clients |-> Absent]
    /\ now = 0
    /\ mails = {}
    /\ nonce = 1
    /\ req = [c \in Clients |-> Idle]
    /\ last = Response("c1", "none", <<>>, NoForm, "none", <<>>, <<>>, <<>>)
    /\ compare_digest \in BOOLEAN
    /\ log = <<>>

\* ------------------------------------------------------------------ clock
\* time.time() moves on: the instants looked at are the start of each validity
\* period and the second after it
Times == {k * Validity + j : k \in 0..MaxDays, j \in {0, 1}}
Tick(t) ==
    /\ t > now
    /\ now' = t
    /\ UNCHANGED <<db, session, mails, nonce, req, last>>
    /\ UNCHANGED <<compare_digest, log>>

\* ------------------------------------------------------------ login/logout
login(c, email, password, valid) ==
    /\ req[c] = Idle
    /\ LET user == QueryByEmail(email)
           form == IF valid THEN <<email, password>> ELSE NoForm
       IN  IF valid /\ user # None /\ is_password_valid(db[user].password, password)
           THEN /\ session' = [session EXCEPT ![c] = user]
                /\ last' = Response(c, "auth.login", <<>>, form, "redirect", <<"/">>, <<>>, <<"body">>)
           ELSE /\ session' = session
                /\ last' = Response(c, "auth.login", <<>>, form, "render", <<>>,
                                    IF valid THEN <<"Wrong username or password">> ELSE <<>>,
                                    <<"body">>)
    /\ UNCHANGED <<db, now, mails, nonce, req>>
    /\ UNCHANGED <<compare_digest, log>>

logout(c) ==
    /\ req[c] = Idle
    /\ session' = [session EXCEPT ![c] = Absent]
    /\ last' = Response(c, "auth.logout", <<>>, NoForm, "redirect", <<"auth.login">>,
                        <<"You have been logged out">>, <<"body">>)
    /\ UNCHANGED <<db, now, mails, nonce, req>>
    /\ UNCHANGED <<compare_digest, log>>

\* ------------------------------------------------------------------ reset
\* mutant: a link whose mail could not be sent is dropped
reset_unsent(c, email, valid, ok) ==
    /\ req[c] = Idle
    /\ LET user == QueryByEmail(email)
           sends == valid /\ user # None
       IN  /\ sends => CanIssue
           /\ mails' = IF sends /\ ok THEN mails \cup {send_reset_email(user)} ELSE mails
           /\ last' = Response(c, "auth.reset", <<>>, IF valid THEN <<email>> ELSE NoForm,
                               "render", <<>>,
                               (IF sends /\ ~ok THEN <<"Could not send an email">> ELSE <<>>)
                                 \o (IF valid THEN <<"If an account was linked">> ELSE <<>>),
                               <<"body">>)
    /\ UNCHANGED <<db, session, now, nonce, req>>
    /\ UNCHANGED <<compare_digest, log>>
reset(c, email, valid, ok) ==
    /\ req[c] = Idle
    /\ LET user == QueryByEmail(email)
           sends == valid /\ user # None
       IN  /\ sends => CanIssue
           /\ mails' = IF sends THEN mails \cup {send_reset_email(user)} ELSE mails
           /\ last' = Response(c, "auth.reset", <<>>, IF valid THEN <<email>> ELSE NoForm,
                               "render", <<>>,
                               (IF sends /\ ~ok THEN <<"Could not send an email">> ELSE <<>>)
                                 \o (IF valid THEN <<"If an account was linked">> ELSE <<>>),
                               <<"body">>)
    /\ UNCHANGED <<db, session, now, nonce, req>>
    /\ UNCHANGED <<compare_digest, log>>

\* --------------------------------------------------------- complete_reset
\* mutant: the expiry is not looked at
NotExpiredEver(t, expires) == TRUE
\* mutant: the comparison excludes the last second
NotExpiredStrict(t, expires) == t < ParseInt(expires).v
\* now <= int(expires)
NotExpired(t, expires) == t <= ParseInt(expires).v

\* try: hmac.compare_digest(real_hash, mac.encode('utf-8'))
\* except AttributeError: real_hash == mac
\* The comparison made: the fallback is taken when hmac has no compare_digest.
Comparison == IF compare_digest THEN "hmac.compare_digest" ELSE "=="
\* both comparisons answer whether the two texts are equal
Authentic(real_hash, mac) == real_hash = mac

\* mutant: the MAC is recomputed over int(expires), not over the text presented
ResetRealHashNormalised(uid, expires, user) ==
    Hexdigest(HMAC_KEY, Fmt3(uid, Str(ParseInt(expires).v), db[user].password))
\* mutant: the MAC is recomputed over the hash remembered from when the link
\* was made, not over the stored one
ResetRealHashCached(uid, expires, user) ==
    LET made == {l \in ResetLinks : l.usr = user}
        pw == IF made = {} THEN db[user].password ELSE (CHOOSE l \in made : TRUE).pw
    IN  Hexdigest(HMAC_KEY, Fmt3(uid, expires, pw))
\* lines 160-163
ResetRealHash(uid, expires, user) ==
    Hexdigest(HMAC_KEY, Fmt3(uid, expires, db[user].password))

\* mutant: the refusal says when the link had expired
ResetInvalidWhy(c, args) ==
    Response(c, "auth.complete_reset", args, NoForm, "redirect", <<".reset">>,
             IF now > ParseInt(args[2]).v
             THEN <<"The link has expired">>
             ELSE <<"The request to reset your password was invalid">>,
             <<"body">>)
\* int(expires) raised ValueError: the request ends in an unhandled error
ResetError(c, args) ==
    Response(c, "auth.complete_reset", args, NoForm, "error500", <<>>, <<>>, <<"body">>)
ResetInvalid(c, args) ==
    Response(c, "auth.complete_reset", args, NoForm, "redirect", <<".reset">>,
             <<"The request to reset your password was invalid">>, <<"body">>)

\* lines 155-170: does the handler reach the form?
ResetAccepted(uid, expires, mac) ==
    /\ NotExpired(now, expires)
    /\ QueryById(uid) # None
    /\ Authentic(ResetRealHash(uid, expires, QueryById(uid)), mac)

\* lines 152-172 and 185-194: everything up to the write of the new password
complete_reset(c, uid, expires, mac, form) ==
    /\ req[c] = Idle
    /\ LET args == <<uid, expires, mac>>
       IN  IF ~ParseInt(expires).ok
           THEN \* int(expires) raises ValueError
                /\ last' = ResetError(c, args)
                /\ UNCHANGED req
           ELSE IF ResetAccepted(uid, expires, mac)
           THEN IF form # NoForm
                THEN /\ req' = [req EXCEPT ![c] = [op |-> "auth.complete_reset", args |-> args,
                                                   form |-> form, user |-> QueryById(uid),
                                                   seen |-> db[QueryById(uid)].password]]
                     /\ UNCHANGED last
                ELSE /\ last' = Response(c, "auth.complete_reset", args, form, "render", <<>>, <<>>, <<"body">>)
                     /\ UNCHANGED req
           ELSE /\ last' = ResetInvalid(c, args)
                /\ UNCHANGED req
    /\ UNCHANGED <<db, session, now, mails, nonce>>
    /\ UNCHANGED <<compare_digest, log>>

\* lines 173-184: write, commit, notify, log the user in
complete_reset_commit(c) ==
    /\ req[c].op = "auth.complete_reset"
    /\ nonce <= MaxNonce
    /\ LET user == req[c].user IN
       /\ db' = [db EXCEPT ![user].password = generate_hash(req[c].form[1], nonce)]
       /\ nonce' = nonce + 1
       /\ mails' = mails \cup {Mail("password_reset", {db[user].email}, NoLink)}
       /\ session' = [session EXCEPT ![c] = user]
       /\ last' = Response(c, "auth.complete_reset", req[c].args, req[c].form,
                           "redirect", <<"/">>, <<>>, <<"body">>)
    /\ req' = [req EXCEPT ![c] = Idle]
    /\ UNCHANGED now
    /\ UNCHANGED <<compare_digest, log>>

\* ----------------------------------------------------------------- signup
\* pyisemail.is_email
is_email(email) == \E i \in 1..Len(email) : email[i] = "@"

SignupLinkFor(email) ==
    LET expires == now + Validity
        mac == Hexdigest(HMAC_KEY, Fmt2(email, Str(expires)))
    IN  [uid |-> <<>>, email |-> email, expires |-> Str(expires), mac |-> mac,
         usr |-> 0, at |-> now, pw |-> <<>>]

signup(c, email, valid, ok) ==
    /\ req[c] = Idle
    /\ LET user == QueryByEmail(email)
           sends == valid /\ is_email(email)
           form == IF valid THEN <<email>> ELSE NoForm
       IN  /\ (sends /\ user = None) => CanIssue
           /\ mails' = IF ~sends THEN mails
                       ELSE IF user = None
                       THEN mails \cup {Mail("registration_email", {email}, SignupLinkFor(email))}
                       ELSE mails \cup {Mail("registration_existing", {email}, NoLink)}
           /\ last' = Response(c, "auth.signup", <<>>, form, "render", <<>>,
                               IF ~valid THEN <<>>
                               ELSE IF ~is_email(email) THEN <<"Invalid email address!">>
                               ELSE IF ok THEN <<"Email sent for verification purposes">>
                               ELSE <<"Could not send email">>,
                               <<"body">>)
    /\ UNCHANGED <<db, session, now, nonce, req>>
    /\ UNCHANGED <<compare_digest, log>>

\* -------------------------------------------------------- complete_signup
\* mutant: the MAC is recomputed over the email, the expires and a mark of
\* whether any password has been written since the start
SignupRealHashStore(email, expires) ==
    Hexdigest(HMAC_KEY, Fmt2(email, expires) \o (IF nonce = 1 THEN <<>> ELSE <<"*">>))
SignupRealHash(email, expires) == Hexdigest(HMAC_KEY, Fmt2(email, expires))

\* lines 255-266: the expiry and MAC check
SignupAccepted(email, expires, mac) ==
    /\ NotExpired(now, expires)
    /\ Authentic(SignupRealHash(email, expires), mac)

SignupError(c, args) ==
    Response(c, "auth.complete_signup", args, NoForm, "error500", <<>>, <<>>, <<"body">>)
SignupInvalid(c, args) ==
    Response(c, "auth.complete_signup", args, NoForm, "redirect", <<".signup">>,
             <<"The request to complete the registration was invalid">>, <<"body">>)
AlreadyRegistered(c, args) ==
    Response(c, "auth.complete_signup", args, NoForm, "redirect", <<".signup">>,
             <<"There is already a user with this email address registered.">>, <<"body">>)

\* lines 252-274 and 290-299: everything up to the insert
complete_signup(c, email, expires, mac, form) ==
    /\ req[c] = Idle
    /\ LET args == <<email, expires, mac>>
           op == "auth.complete_signup"
       IN  IF ~ParseInt(expires).ok
           THEN /\ last' = SignupError(c, args)
                /\ UNCHANGED req
           ELSE IF ~SignupAccepted(email, expires, mac)
           THEN /\ last' = SignupInvalid(c, args)
                /\ UNCHANGED req
           ELSE IF QueryByEmail(email) # None
           THEN /\ last' = AlreadyRegistered(c, args)
                /\ UNCHANGED req
           ELSE IF form # NoForm
           THEN /\ req' = [req EXCEPT ![c] = [op |-> op, args |-> args, form |-> form, user |-> None,
                                                   seen |-> <<>>]]
                /\ UNCHANGED last
           ELSE /\ last' = Response(c, op, args, form, "render", <<>>, <<>>, <<"body">>)
                /\ UNCHANGED req
    /\ UNCHANGED <<db, session, now, mails, nonce>>
    /\ UNCHANGED <<compare_digest, log>>

\* lines 275-289: insert, commit, log the user in, notify
complete_signup_commit(c) ==
    /\ req[c].op = "auth.complete_signup"
    /\ nonce <= MaxNonce
    /\ Len(db) < MaxUsers
    /\ LET email == req[c].args[1]
           id == Len(db) + 1
       IN  /\ db' = Append(db, [name |-> req[c].form[1], email |-> email,
                                password |-> generate_hash(req[c].form[2], nonce),
                                role |-> "user"])
           /\ nonce' = nonce + 1
           /\ session' = [session EXCEPT ![c] = id]
           /\ mails' = mails \cup {Mail("registration_ok", {email}, NoLink)}
           /\ last' = Response(c, "auth.complete_signup", req[c].args, req[c].form,
                               "redirect", <<"/">>, <<>>, <<"body">>)
    /\ req' = [req EXCEPT ![c] = Idle]
    /\ UNCHANGED now
    /\ UNCHANGED <<compare_digest, log>>

\* ----------------------------------------------------------------- manage
\* redirect(url_for('auth.login', next=request.endpoint))
LoginRedirect(c, op, args, form) ==
    Response(c, op, args, form, "redirect", <<"auth.login", op>>, <<>>, <<"login_required">>)

manage(c, email, name, new_password, valid) ==
    /\ req[c] = Idle
    /\ LET op == "auth.manage"
           form == IF valid THEN <<email, name, new_password>> ELSE NoForm
           user == before_app_request(c)
       IN  IF login_required(c)
           THEN /\ last' = LoginRedirect(c, op, <<>>, form)
                /\ UNCHANGED <<db, mails, nonce>>
           ELSE IF ~valid
           THEN /\ last' = Response(c, op, <<>>, form, "render", <<>>, <<>>, <<"login_required", "body">>)
                /\ UNCHANGED <<db, mails, nonce>>
           ELSE LET old_email == IF db[user].email # email THEN <<db[user].email>> ELSE <<>>
                    password == Len(new_password) >= 10
                IN  /\ password => nonce <= MaxNonce
                    /\ db' = [db EXCEPT ![user] =
                                [name |-> name, email |-> email, role |-> @.role,
                                 password |-> IF password THEN generate_hash(new_password, nonce)
                                              ELSE @.password]]
                    /\ nonce' = IF password THEN nonce + 1 ELSE nonce
                    /\ mails' = mails
                          \cup (IF old_email # <<>>
                                THEN {Mail("email_changed", {old_email[1], email}, NoLink)} ELSE {})
                          \cup (IF password
                                THEN {Mail("password_changed",
                                           IF old_email = <<>> THEN {email} ELSE {old_email[1], email},
                                           NoLink)}
                                ELSE {})
                    /\ last' = Response(c, op, <<>>, form, "render", <<>>, <<"Settings saved">>,
                                        <<"login_required", "body">>)
    /\ UNCHANGED <<session, now, req>>
    /\ UNCHANGED <<compare_digest, log>>

\* ------------------------------------------------- user management pages
Forbidden(c, op, args, form, trace) == Response(c, op, args, form, "abort403", <<>>, <<>>, trace)
NotFound(c, op, args, form, trace) == Response(c, op, args, form, "abort404", <<>>, <<>>, trace)
\* g.user.role on g.user = None raises AttributeError
NoUserError(c, op, args, form, trace) == Response(c, op, args, form, "error500", <<>>, <<>>, trace)

Gate1 == <<"login_required">>
Gate2 == <<"login_required", "check_access_rights">>

users(c) ==
    /\ req[c] = Idle
    /\ LET op == "auth.users" IN
       last' = IF login_required(c) THEN LoginRedirect(c, op, <<>>, NoForm)
               ELSE IF before_app_request(c) = None THEN NoUserError(c, op, <<>>, NoForm, Gate2)
               ELSE IF ~check_access_rights(c, {"admin"}) THEN Forbidden(c, op, <<>>, NoForm, Gate2)
               ELSE Response(c, op, <<>>, NoForm, "render", <<>>, <<>>, Gate2 \o <<"body">>)
    /\ UNCHANGED <<db, session, now, mails, nonce, req>>
    /\ UNCHANGED <<compare_digest, log>>

user(c, uid) ==
    /\ req[c] = Idle
    /\ LET op == "auth.user"
           args == <<uid>>
           t == Gate1 \o <<"body">>
       IN
       last' = IF login_required(c) THEN LoginRedirect(c, op, args, NoForm)
               ELSE IF before_app_request(c) = None THEN NoUserError(c, op, args, NoForm, t)
               ELSE IF ~SelfOrAdmin(c, uid) THEN Forbidden(c, op, args, NoForm, t)
               ELSE IF QueryById(uid) = None THEN NotFound(c, op, args, NoForm, t)
               ELSE Response(c, op, args, NoForm, "render", <<>>, <<>>, t)
    /\ UNCHANGED <<db, session, now, mails, nonce, req>>
    /\ UNCHANGED <<compare_digest, log>>

reset_user(c, uid, ok) ==
    /\ req[c] = Idle
    /\ LET op == "auth.reset_user"
           args == <<uid>>
           t == Gate2 \o <<"body">>
           usr == QueryById(uid)
       IN  IF login_required(c)
           THEN last' = LoginRedirect(c, op, args, NoForm) /\ UNCHANGED mails
           ELSE IF before_app_request(c) = None
           THEN last' = NoUserError(c, op, args, NoForm, Gate2) /\ UNCHANGED mails
           ELSE IF ~check_access_rights(c, {"admin"})
           THEN last' = Forbidden(c, op, args, NoForm, Gate2) /\ UNCHANGED mails
           ELSE IF ~SelfOrAdmin(c, uid)
           THEN last' = Forbidden(c, op, args, NoForm, t) /\ UNCHANGED mails
           ELSE IF usr = None
           THEN last' = NotFound(c, op, args, NoForm, t) /\ UNCHANGED mails
           ELSE /\ CanIssue
                /\ mails' = mails \cup {send_reset_email(usr)}
                /\ last' = Response(c, op, args, NoForm, "render", <<>>,
                                    IF ok THEN <<>> ELSE <<"Could not send an email">>, t)
    /\ UNCHANGED <<db, session, now, nonce, req>>
    /\ UNCHANGED <<compare_digest, log>>

role(c, uid, new_role, valid) ==
    /\ req[c] = Idle
    /\ LET op == "auth.role"
           args == <<uid>>
           form == IF valid THEN << <<new_role>> >> ELSE NoForm
           t == Gate2 \o <<"body">>
           usr == QueryById(uid)
       IN  IF login_required(c)
           THEN last' = LoginRedirect(c, op, args, form) /\ UNCHANGED db
           ELSE IF before_app_request(c) = None
           THEN last' = NoUserError(c, op, args, form, Gate2) /\ UNCHANGED db
           ELSE IF ~check_access_rights(c, {"admin"})
           THEN last' = Forbidden(c, op, args, form, Gate2) /\ UNCHANGED db
           ELSE IF usr = None
           THEN last' = NotFound(c, op, args, form, t) /\ UNCHANGED db
           ELSE IF valid
           THEN /\ db' = [db EXCEPT ![usr].role = new_role]
                /\ last' = Response(c, op, args, form, "redirect", <<".users">>, <<>>, t)
           ELSE last' = Response(c, op, args, form, "render", <<>>, <<>>, t) /\ UNCHANGED db
    /\ UNCHANGED <<session, now, mails, nonce, req>>
    /\ UNCHANGED <<compare_digest, log>>

\* "Anonymized %s" % usr.id and "unknown%s@ccextractor.org" % usr.id
AnonName(id) == <<"A", "n", "o", "n", "y", "m", "i", "z", "e", "d", " ">> \o Str(id)
AnonEmail(id) ==
    <<"u", "n", "k", "n", "o", "w", "n">> \o Str(id)
      \o <<"@", "c", "c", "e", "x", "t", "r", "a", "c", "t", "o", "r", ".", "o", "r", "g">>

\* mutant: the row is deleted
deactivate_delete(c, uid, valid) ==
    /\ req[c] = Idle
    /\ LET op == "auth.deactivate"
           args == <<uid>>
           form == IF valid THEN << <<"submit">> >> ELSE NoForm
           t == Gate1 \o <<"body">>
           usr == QueryById(uid)
           g_user == before_app_request(c)
       IN  IF login_required(c)
           THEN last' = LoginRedirect(c, op, args, form) /\ UNCHANGED <<db, session, nonce>>
           ELSE IF g_user = None
           THEN last' = NoUserError(c, op, args, form, t) /\ UNCHANGED <<db, session, nonce>>
           ELSE IF ~SelfOrAdmin(c, uid)
           THEN last' = Forbidden(c, op, args, form, t) /\ UNCHANGED <<db, session, nonce>>
           ELSE IF usr = None
           THEN last' = NotFound(c, op, args, form, t) /\ UNCHANGED <<db, session, nonce>>
           ELSE IF ~valid
           THEN last' = Response(c, op, args, form, "render", <<>>, <<>>, t)
                /\ UNCHANGED <<db, session, nonce>>
           ELSE /\ nonce <= MaxNonce
                /\ db' = [i \in 1..(Len(db) - 1) |-> IF i < usr THEN db[i] ELSE db[i + 1]]
                /\ nonce' = nonce + 1
                /\ IF db[g_user].role = "admin"
                   THEN /\ session' = session
                        /\ last' = Response(c, op, args, form, "redirect", <<".users">>, <<>>, t)
                   ELSE /\ session' = [session EXCEPT ![c] = Absent]
                        /\ last' = Response(c, op, args, form, "redirect", <<".login">>,
                                            <<"Account deactivated.">>, t)
    /\ UNCHANGED <<now, mails, req>>
    /\ UNCHANGED <<compare_digest, log>>
deactivate(c, uid, valid) ==
    /\ req[c] = Idle
    /\ LET op == "auth.deactivate"
           args == <<uid>>
           form == IF valid THEN << <<"submit">> >> ELSE NoForm
           t == Gate1 \o <<"body">>
           usr == QueryById(uid)
           g_user == before_app_request(c)
       IN  IF login_required(c)
           THEN last' = LoginRedirect(c, op, args, form) /\ UNCHANGED <<db, session, nonce>>
           ELSE IF g_user = None
           THEN last' = NoUserError(c, op, args, form, t) /\ UNCHANGED <<db, session, nonce>>
           ELSE IF ~SelfOrAdmin(c, uid)
           THEN last' = Forbidden(c, op, args, form, t) /\ UNCHANGED <<db, session, nonce>>
           ELSE IF usr = None
           THEN last' = NotFound(c, op, args, form, t) /\ UNCHANGED <<db, session, nonce>>
           ELSE IF ~valid
           THEN last' = Response(c, op, args, form, "render", <<>>, <<>>, t)
                /\ UNCHANGED <<db, session, nonce>>
           ELSE /\ nonce <= MaxNonce
                /\ db' = [db EXCEPT ![usr] = [name |-> AnonName(usr), email |-> AnonEmail(usr),
                                              password |-> create_random_password(nonce),
                                              role |-> @.role]]
                /\ nonce' = nonce + 1
                /\ IF db[g_user].role = "admin"
                   THEN /\ session' = session
                        /\ last' = Response(c, op, args, form, "redirect", <<".users">>, <<>>, t)
                   ELSE /\ session' = [session EXCEPT ![c] = Absent]
                        /\ last' = Response(c, op, args, form, "redirect", <<".login">>,
                                            <<"Account deactivated.">>, t)
    /\ UNCHANGED <<now, mails, req>>
    /\ UNCHANGED <<compare_digest, log>>

\* ------------------------------------------ pages behind a list of roles
\* A function decorated with @login_required and @check_access_rights(roles),
\* as users is, for the lists of roles a caller can pass: none (roles omitted
\* or []), one role, several roles.
Pages == {"page.nobody", "page.user", "page.tester", "page.admin", "page.user_tester"}
PageRoles(page) ==
    CASE page = "page.nobody" -> {}
      [] page = "page.user" -> {"user"}
      [] page = "page.tester" -> {"tester"}
      [] page = "page.admin" -> {"admin"}
      [] page = "page.user_tester" -> {"user", "tester"}
protected(c, page) ==
    /\ req[c] = Idle
    /\ last' = IF login_required(c) THEN LoginRedirect(c, page, <<>>, NoForm)
               ELSE IF before_app_request(c) = None THEN NoUserError(c, page, <<>>, NoForm, Gate2)
               ELSE IF ~check_access_rights(c, PageRoles(page))
               THEN Forbidden(c, page, <<>>, NoForm, Gate2)
               ELSE Response(c, page, <<>>, NoForm, "render", <<>>, <<>>, Gate2 \o <<"body">>)
    /\ UNCHANGED <<db, session, now, mails, nonce, req>>
    /\ UNCHANGED <<compare_digest, log>>

\* ------------------------------------------------------------------ inputs
EmailInputs == {EmailA, EmailU, EmailN}
PasswordInputs == {Pw1, Pw2}
UidInputs == {Str(i) : i \in 1..MaxUsers}
\* a link's expiry pushed later, re-spelled, and not a number
Later(expires) == expires \o <<"0">>
Respelled(text) == <<"0">> \o text
\* a MAC with its last character changed
Flip(mac) == SubSeq(mac, 1, Len(mac) - 1) \o <<"~">>

\* what a client can present: a link that was made, or one with a field changed
Sent(subject, l) == <<subject, l.expires, l.mac>>
Presented(subject, l, subjects) ==
    {Sent(subject, l)}
      \cup {<<s, l.expires, l.mac>> : s \in (subjects \cup {Respelled(subject)}) \ {subject}}
      \cup {<<subject, e, l.mac>> : e \in {Later(l.expires), Respelled(l.expires), NotANumber}}
      \cup {<<subject, l.expires, m>> : m \in {Flip(l.mac), Garbage}}
ResetSent == {Sent(l.uid, l) : l \in ResetLinks}
SignupSent == {Sent(l.email, l) : l \in SignupLinks}
ResetRequests == UNION {Presented(l.uid, l, UidInputs) : l \in ResetLinks}
SignupRequests == UNION {Presented(l.email, l, EmailInputs) : l \in SignupLinks}
ResetForms == {NoForm, <<Pw2>>}
SignupForms == {NoForm, <<Name1, Pw1>>}
\* AccountForm(request.form, g.user): the form comes filled with the account's
\* own email and name
CurEmail(c) == IF before_app_request(c) = None THEN EmailU ELSE db[before_app_request(c)].email
CurName(c) == IF before_app_request(c) = None THEN Name1 ELSE db[before_app_request(c)].name

\* --------------------------------------------------------- specifications
\* The token protocol: both link flows, two clients, requests interleaving
\* between a handler's checks and its write.
NextToken ==
    \/ \E t \in Times : Tick(t)
    \/ \E c \in Clients, email \in {EmailU, EmailN}, valid \in BOOLEAN, ok \in BOOLEAN :
          reset(c, email, valid, ok)
    \/ \E c \in Clients, r \in ResetRequests, form \in ResetForms :
          complete_reset(c, r[1], r[2], r[3], form)
    \/ \E c \in Clients : complete_reset_commit(c)
    \/ \E c \in Clients, email \in {EmailU, EmailN, EmailBad}, valid \in BOOLEAN, ok \in BOOLEAN :
          signup(c, email, valid, ok)
    \/ \E c \in Clients, r \in SignupRequests, form \in SignupForms :
          complete_signup(c, r[1], r[2], r[3], form)
    \/ \E c \in Clients : complete_signup_commit(c)

SpecToken == Init /\ [][NextToken]_vars

\* Password reset next to every other way a password changes.
NextReset ==
    \/ \E t \in Times : Tick(t)
    \/ \E c \in Clients, email \in {EmailA, EmailU}, ok \in BOOLEAN :
          reset(c, email, TRUE, ok)
    \/ \E c \in Clients, r \in ResetSent, form \in ResetForms :
          complete_reset(c, r[1], r[2], r[3], form)
    \/ \E c \in Clients : complete_reset_commit(c)
    \/ \E c \in Clients, email \in {EmailA, EmailU} :
          login(c, email, Pw1, TRUE)
    \/ \E c \in Clients, new_password \in {Short, Pw2} :
          manage(c, CurEmail(c), CurName(c), new_password, TRUE)
    \/ \E c \in Clients, uid \in UidInputs : deactivate(c, uid, TRUE)

SpecReset == Init /\ [][NextReset]_vars

\* The access-control gates: one browser session walking through the pages.
NextAccess ==
    \/ \E email \in EmailInputs, password \in PasswordInputs, valid \in BOOLEAN :
          login("c1", email, password, valid)
    \/ logout("c1")
    \/ \E new_password \in {Short, Pw2}, valid \in BOOLEAN :
          manage("c1", CurEmail("c1"), CurName("c1"), new_password, valid)
    \/ users("c1")
    \/ \E uid \in UidInputs : user("c1", uid)
    \/ \E uid \in UidInputs, ok \in BOOLEAN : reset_user("c1", uid, ok)
    \/ \E uid \in UidInputs, new_role \in Roles, valid \in BOOLEAN :
          role("c1", uid, new_role, valid)
    \/ \E uid \in UidInputs, valid \in BOOLEAN : deactivate("c1", uid, valid)

SpecAccess == Init /\ [][NextAccess]_vars

\* a signup link among other activity: while the link for a new address is
\* out, users log in, change their password or take the new address as their
\* own, the admin changes a role and deactivates an account
NextSignup ==
    \/ \E t \in Times : Tick(t)
    \/ \E ok \in BOOLEAN : signup("c1", EmailN, TRUE, ok)
    \/ \E r \in SignupSent, form \in SignupForms : complete_signup("c1", r[1], r[2], r[3], form)
    \/ complete_signup_commit("c1")
    \/ \E email \in {EmailA, EmailU, EmailN} : login("c1", email, Pw1, TRUE)
    \/ \E email \in {CurEmail("c1"), EmailN}, new_password \in {Short, Pw2} :
          manage("c1", email, CurName("c1"), new_password, TRUE)
    \/ role("c1", Str(2), "tester", TRUE)
    \/ \E uid \in {Str(1), Str(2)} : deactivate("c1", uid, TRUE)
SpecSignup == Init /\ [][NextSignup]_vars

\* the role gate: users log in and out, the admin changes roles, and pages
\* behind every list of roles are requested
NextRoles ==
    \/ \E c \in Clients, email \in {EmailA, EmailU} : login(c, email, Pw1, TRUE)
    \/ \E c \in Clients : logout(c)
    \/ \E c \in Clients, uid \in {Str(1), Str(2)}, new_role \in Roles : role(c, uid, new_role, TRUE)
    \/ \E c \in Clients, page \in Pages : protected(c, page)
SpecRoles == Init /\ [][NextRoles]_vars

\* ----------------------------------------------------------------- claims
CompleteResetOp == "auth.complete_reset"
CompleteSignupOp == "auth.complete_signup"
ResetFormShown(c, args) ==
    Response(c, CompleteResetOp, args, NoForm, "render", <<>>, <<>>, <<"body">>)
SignupFormShown(c, args) ==
    Response(c, CompleteSignupOp, args, NoForm, "render", <<>>, <<>>, <<"body">>)
Untouched == UNCHANGED <<db, session, mails, nonce, req>>

\* C1: a link made by send_reset_email is accepted by complete_reset at every
\* time up to and including its expiry while the account's stored hash is the
\* one it was made with (the form is shown, or the submitted password goes on
\* to be written); a link made by signup passes complete_signup's expiry and
\* MAC check at every time up to and including its expiry.
RoundTrip ==
    [][\A c \in Clients :
         /\ \A l \in ResetLinks, form \in ResetForms :
              (/\ complete_reset(c, l.uid, l.expires, l.mac, form)
               /\ now <= l.at + Validity
               /\ db[l.usr].password = l.pw)
              => IF form = NoForm
                 THEN last' = ResetFormShown(c, Sent(l.uid, l))
                 ELSE req'[c].op = CompleteResetOp /\ req'[c].user = l.usr
         /\ \A l \in SignupLinks, form \in SignupForms :
              (/\ complete_signup(c, l.email, l.expires, l.mac, form)
               /\ now <= l.at + Validity)
              => \/ req'[c].op = CompleteSignupOp
                 \/ last' = SignupFormShown(c, Sent(l.email, l))
                 \/ last' = AlreadyRegistered(c, Sent(l.email, l))
    ]_vars

\* C1 witness: a reset link presented in the last second of its validity got
\* the password form.
RoundTripSeen ==
    \E l \in ResetLinks :
        /\ last = ResetFormShown(last.c, Sent(l.uid, l))
        /\ now = l.at + Validity
        /\ db[l.usr].password = l.pw

\* C5: a link presented after its expiry is refused with the invalid-request
\* redirect although its MAC is the right one, and nothing is written (no
\* password, no user, no session); a link presented at exactly its expiry is
\* still accepted.
ResetTaken(c, args) == req[c].op = CompleteResetOp \/ last = ResetFormShown(c, args)
SignupChecked(c, args) ==
    \/ req[c].op = CompleteSignupOp
    \/ last = SignupFormShown(c, args)
    \/ last = AlreadyRegistered(c, args)
ExpiryEnforced ==
    [][\A c \in Clients :
         /\ \A l \in ResetLinks, form \in ResetForms :
              complete_reset(c, l.uid, l.expires, l.mac, form)
              => /\ now > l.at + Validity
                    => last' = ResetInvalid(c, Sent(l.uid, l)) /\ Untouched
                 /\ (now = l.at + Validity /\ db[l.usr].password = l.pw)
                    => ResetTaken(c, Sent(l.uid, l))'
         /\ \A l \in SignupLinks, form \in SignupForms :
              complete_signup(c, l.email, l.expires, l.mac, form)
              => /\ now > l.at + Validity
                    => last' = SignupInvalid(c, Sent(l.email, l)) /\ Untouched
                 /\ now = l.at + Validity => SignupChecked(c, Sent(l.email, l))'
    ]_vars

\* C5 witness: an untampered reset link for an account whose hash has not
\* changed was refused after its expiry.
ExpiredRefused ==
    \E l \in ResetLinks :
        /\ last = ResetInvalid(last.c, Sent(l.uid, l))
        /\ now > l.at + Validity
        /\ db[l.usr].password = l.pw

\* C6: a request that differs from every link that was made, in the subject,
\* the expires text or the MAC, is never accepted and writes nothing; and
\* whatever is accepted carries an expiry no later than that of a link made
\* for the same subject.
\* Asked(c, r): this step left r as the arguments of a request of client c.
\* Both completions imply it of their own arguments; it stands in front of
\* them below so that the steps of other requests are dismissed early.
Asked(c, r) ==
    \/ last'.c = c /\ last'.args = r
    \/ req'[c].op # "idle" /\ req'[c].args = r
TamperEvident ==
    [][\A c \in Clients :
         /\ \A r \in ResetRequests, form \in ResetForms :
              (Asked(c, r) /\ complete_reset(c, r[1], r[2], r[3], form))
              => /\ r \notin ResetSent
                    => /\ last' = ResetInvalid(c, r) \/ last' = ResetError(c, r)
                       /\ Untouched
                 /\ ResetTaken(c, r)'
                    => \E l \in ResetLinks :
                          l.uid = r[1] /\ ParseInt(r[2]).v <= l.at + Validity
         /\ \A r \in SignupRequests, form \in SignupForms :
              (Asked(c, r) /\ complete_signup(c, r[1], r[2], r[3], form))
              => /\ r \notin SignupSent
                    => /\ last' = SignupInvalid(c, r) \/ last' = SignupError(c, r)
                       /\ Untouched
                 /\ SignupChecked(c, r)'
                    => \E l \in SignupLinks :
                          l.email = r[1] /\ ParseInt(r[2]).v <= l.at + Validity
    ]_vars

\* C6 witness: a still valid reset link with its expiry pushed later was
\* refused.
TamperRefused ==
    \E l \in ResetLinks :
        /\ last = ResetInvalid(last.c, <<l.uid, Later(l.expires), l.mac>>)
        /\ now <= l.at + Validity
        /\ db[l.usr].password = l.pw

\* C10 (as claimed): whatever is presented to complete_reset or
\* complete_signup, the request never ends in an unhandled error.
FailClosed ==
    last.op \in {CompleteResetOp, CompleteSignupOp} => last.status # "error500"

\* C3 (as claimed): no two users ever hold the same email, whatever the
\* interleaving of the signup completions.
SignupUnique ==
    \A i \in Ids, j \in Ids : i # j => db[i].email # db[j].email

\* C4 (as claimed): a reset only writes a password over the hash its link was
\* verified against, so of the requests verified against one stored hash at
\* most one commits.
SingleUse ==
    [][\A c \in Clients :
         complete_reset_commit(c) => db[req[c].user].password = req[c].seen]_vars

\* C2: once the account's stored hash is no longer the one a reset link was
\* made with (after complete_reset, manage with a new password, or
\* deactivate), complete_reset presented with that link answers with the
\* invalid-request redirect and writes nothing, expired or not.
Invalidation ==
    [][\A c \in Clients, l \in ResetLinks, form \in ResetForms :
         (/\ Asked(c, Sent(l.uid, l))
          /\ db[l.usr].password # l.pw
          /\ complete_reset(c, l.uid, l.expires, l.mac, form))
         => last' = ResetInvalid(c, Sent(l.uid, l)) /\ Untouched
    ]_vars

\* C2 witness: an unexpired reset link was refused after its account had been
\* deactivated.
InvalidatedRefused ==
    \E l \in ResetLinks :
        /\ last = ResetInvalid(last.c, Sent(l.uid, l))
        /\ now <= l.at + Validity
        /\ db[l.usr].password # l.pw
        /\ db[l.usr].name = AnonName(l.usr)

\* C7: a request without a resolved identity to a page behind login_required
\* is answered by the redirect to auth.login carrying the endpoint as next;
\* only the login gate ran (no role gate, no body) and nothing is written.
GatedOps == {"auth.manage", "auth.users", "auth.user", "auth.reset_user", "auth.role",
             "auth.deactivate"}
AuthGate ==
    [][\A c \in Clients :
         (/\ before_app_request(c) = None
          /\ last' # last /\ last'.c = c /\ last'.op \in GatedOps)
         => /\ last'.status = "redirect"
            /\ last'.location = <<"auth.login", last'.op>>
            /\ last'.trace = <<"login_required">>
            /\ Untouched
    ]_vars

\* C7 witness: an anonymous role change was sent to the login page.
AnonymousRedirected ==
    /\ last.op = "auth.role" /\ last.form # NoForm
    /\ last.status = "redirect" /\ last.location = <<"auth.login", "auth.role">>
    /\ before_app_request(last.c) = None

\* C8: a logged-in user whose role is not admin gets 403 from users,
\* reset_user and role, and the users, the sessions and the mails handed to
\* the mailer are what they were.
AdminOps == {"auth.users", "auth.reset_user", "auth.role"}
RoleGate ==
    [][\A c \in Clients :
         (/\ before_app_request(c) # None
          /\ db[before_app_request(c)].role # "admin"
          /\ last' # last /\ last'.c = c /\ last'.op \in AdminOps)
         => last'.status = "abort403" /\ Untouched
    ]_vars

\* C8 witness: a submitted role change by a user of role "user" got 403.
NonAdminForbidden ==
    /\ last.op = "auth.role" /\ last.form # NoForm /\ last.status = "abort403"
    /\ before_app_request(last.c) # None
    /\ db[before_app_request(last.c)].role = "user"

\* C9 (as claimed): user, reset_user and deactivate answer a logged-in user
\* with 403 exactly when the user is neither the target nor an admin.
SelfOps == {"auth.user", "auth.reset_user", "auth.deactivate"}
SelfOrRole ==
    (last.op \in SelfOps /\ before_app_request(last.c) # None)
    => (last.status = "abort403"
        <=> ~(\/ ParseInt(last.args[1]).v = before_app_request(last.c)
              \/ db[before_app_request(last.c)].role = "admin"))

\* C11: whatever makes complete_reset refuse a request with a numeric
\* expires (the link has expired, the MAC is not the one of the stored hash,
\* the uid names no user), the client gets one and the same answer: the same
\* flashed message, the same redirect to the reset page, and nothing is
\* written.
Expired(r) == now > ParseInt(r[2]).v
UnknownUid(r) == QueryById(r[1]) = None
WrongMac(r) ==
    /\ QueryById(r[1]) # None
    /\ r[3] # Hexdigest(HMAC_KEY, Fmt3(r[1], r[2], db[QueryById(r[1])].password))
SameRejection ==
    [][\A c \in Clients : \A r \in ResetRequests, form \in ResetForms :
         (/\ Asked(c, r)
          /\ ParseInt(r[2]).ok
          /\ Expired(r) \/ UnknownUid(r) \/ WrongMac(r)
          /\ complete_reset(c, r[1], r[2], r[3], form))
         => /\ last'.status = "redirect"
            /\ last'.location = <<".reset">>
            /\ last'.flash = <<"The request to reset your password was invalid">>
            /\ last'.form = NoForm
            /\ Untouched
    ]_vars

\* C11 witness: an unexpired link was refused because the uid it was
\* presented with names no user.
UnknownUidRefused ==
    \E l \in ResetLinks, s \in UidInputs :
        /\ QueryById(s) = None
        /\ last = ResetInvalid(last.c, <<s, l.expires, l.mac>>)
        /\ now <= l.at + Validity

\* C12 (as claimed): a successful login leaves the client's session slot
\* holding the id of the user logged in, complete_signup leaves it holding
\* the id of the user it created, logout leaves it absent, and a user of any
\* role who completes the deactivation of their own account is left with an
\* absent session slot.
SessionLifecycle ==
    [][\A c \in Clients :
         /\ \A email \in EmailInputs, password \in PasswordInputs :
              (login(c, email, password, TRUE) /\ last'.status = "redirect")
              => session'[c] = QueryByEmail(email)
         /\ complete_signup_commit(c) => session'[c] = Len(db')
         /\ logout(c) => session'[c] = Absent
         /\ \A uid \in UidInputs :
              (/\ before_app_request(c) # None
               /\ QueryById(uid) = before_app_request(c)
               /\ deactivate(c, uid, TRUE)
               /\ db' # db)
              => session'[c] = Absent
    ]_vars

\* C13: check_access_rights(roles) lets the function behind it run exactly
\* when the role of the logged-in user is one of roles: a role above every
\* listed role is refused when it is not listed, and with no role listed
\* everybody is refused.
ExactMembership ==
    [][\A c \in Clients, page \in Pages :
         (before_app_request(c) # None /\ protected(c, page))
         => LET listed == db[before_app_request(c)].role \in PageRoles(page)
            IN  /\ listed => last'.status = "render" /\ last'.trace = Gate2 \o <<"body">>
                /\ ~listed => last'.status = "abort403" /\ last'.trace = Gate2
                /\ PageRoles(page) = {} => last'.status = "abort403"
    ]_vars

\* C13 witness: the admin was refused a page that lists the role user only.
HigherRoleForbidden ==
    /\ last.op = "page.user" /\ last.status = "abort403"
    /\ before_app_request(last.c) # None
    /\ db[before_app_request(last.c)].role = "admin"

\* C14: whatever the mailer answers to reset or signup, the request leaves
\* the same users, sessions, mails handed over, and requests in flight: the
\* state it reaches when the mailer fails is, the response apart, a state the
\* same request reaches when the mailer succeeds, and the other way round.
\* So a link whose mail failed is the link that would have been sent, and is
\* verified as such. (complete_reset, complete_signup and manage discard the
\* mailer's answer.)
MailIndependent ==
    [][\A c \in Clients, email \in {EmailA, EmailU, EmailN, EmailBad},
          valid \in BOOLEAN, ok \in BOOLEAN :
         /\ (last'.c = c /\ last'.op = "auth.reset" /\ reset(c, email, valid, ok))
            => \E d \in {db'}, se \in {session'}, m \in {mails'}, n \in {nonce'}, q \in {req'} :
                 ENABLED (/\ reset(c, email, valid, ~ok)
                          /\ db' = d /\ session' = se /\ mails' = m /\ nonce' = n /\ req' = q)
         /\ (last'.c = c /\ last'.op = "auth.signup" /\ signup(c, email, valid, ok))
            => \E d \in {db'}, se \in {session'}, m \in {mails'}, n \in {nonce'}, q \in {req'} :
                 ENABLED (/\ signup(c, email, valid, ~ok)
                          /\ db' = d /\ session' = se /\ mails' = m /\ nonce' = n /\ req' = q)
    ]_vars

\* C14 witness: the mailer failed on a reset link, and the link has since
\* been presented and has passed the checks of complete_reset.
UnsentLinkVerified ==
    /\ last.op = "auth.reset"
    /\ Len(last.flash) = 2 /\ last.flash[1] = "Could not send an email"
    /\ \E c \in Clients, l \in ResetLinks :
         req[c].op = CompleteResetOp /\ req[c].args = Sent(l.uid, l)

\* C15 (as claimed): complete_reset and complete_signup compare the MAC with
\* hmac.compare_digest unless the hmac module lacks it, and whenever they
\* compare with the plain == instead, the request adds an entry to the log.
DegradationLogged ==
    [][\A c \in Clients :
         /\ \A r \in ResetRequests, form \in ResetForms :
              (/\ Asked(c, r)
               /\ ParseInt(r[2]).ok /\ ~Expired(r) /\ ~UnknownUid(r)
               /\ complete_reset(c, r[1], r[2], r[3], form))
              => /\ Comparison = "==" <=> ~compare_digest
                 /\ Comparison = "==" => log' # log
         /\ \A r \in SignupRequests, form \in SignupForms :
              (/\ Asked(c, r)
               /\ ParseInt(r[2]).ok /\ ~Expired(r)
               /\ complete_signup(c, r[1], r[2], r[3], form))
              => /\ Comparison = "==" <=> ~compare_digest
                 /\ Comparison = "==" => log' # log
    ]_vars

\* C16 (as claimed): every link carries the clock of its making plus 86400,
\* and complete_reset writes a password, and complete_signup adds a user,
\* only while the clock is no later than 86400 seconds after the making of
\* the link presented.
IssuedWindow ==
    \A m \in mails' \ mails :
        m.link # NoLink
        => /\ m.link.at = now
           /\ ParseInt(m.link.expires).ok
           /\ ParseInt(m.link.expires).v = now + Validity
WritesWithinWindow ==
    [][/\ IssuedWindow
       /\ \A c \in Clients :
            /\ complete_reset_commit(c)
               => \E l \in ResetLinks :
                     Sent(l.uid, l) = req[c].args /\ now <= l.at + Validity
            /\ complete_signup_commit(c)
               => \E l \in SignupLinks :
                     Sent(l.email, l) = req[c].args /\ now <= l.at + Validity
    ]_vars

\* C16 (amended): every link carries the clock of its making plus 86400,
\* and a request passes the expiry check of complete_reset or complete_signup
\* only while the clock is no later than 86400 seconds after the making of
\* the link presented; the write follows within the same request, at whatever
\* the clock is by then.
ChecksWithinWindow ==
    [][/\ IssuedWindow
       /\ \A c \in Clients :
            /\ \A r \in ResetRequests, form \in ResetForms :
                 (/\ Asked(c, r)
                  /\ complete_reset(c, r[1], r[2], r[3], form)
                  /\ ResetTaken(c, r)')
                 => \E l \in ResetLinks : Sent(l.uid, l) = r /\ now <= l.at + Validity
            /\ \A r \in SignupRequests, form \in SignupForms :
                 (/\ Asked(c, r)
                  /\ complete_signup(c, r[1], r[2], r[3], form)
                  /\ SignupChecked(c, r)')
                 => \E l \in SignupLinks : Sent(l.email, l) = r /\ now <= l.at + Validity
            /\ complete_reset_commit(c)
               => \E l \in ResetLinks : Sent(l.uid, l) = req[c].args
            /\ complete_signup_commit(c)
               => \E l \in SignupLinks : Sent(l.email, l) = req[c].args
    ]_vars

\* C16 witness: a password was written by complete_reset exactly 86400
\* seconds after the link presented was made.
WrittenAtWindowEnd ==
    \E l \in ResetLinks :
        /\ last.op = CompleteResetOp /\ last.status = "redirect" /\ last.location = <<"/">>
        /\ last.args = Sent(l.uid, l)
        /\ now = l.at + Validity
        /\ db[l.usr].password # l.pw

\* C17: whatever else has happened to the users (logins, password changes,
\* role changes, deactivations, signups), a signup link presented unchanged
\* before its expiry passes the expiry and MAC check of complete_signup; what
\* depends on the users is only the check that follows, made at every
\* presentation: if a user has the link's email the answer is "already
\* registered" and nothing is written, otherwise the form is shown or the
\* request goes on to add the user.
SignupIndependent ==
    [][\A c \in Clients, l \in SignupLinks, form \in SignupForms :
         (/\ Asked(c, Sent(l.email, l))
          /\ now <= l.at + Validity
          /\ complete_signup(c, l.email, l.expires, l.mac, form))
         => /\ last' # SignupInvalid(c, Sent(l.email, l))
            /\ last' # SignupError(c, Sent(l.email, l))
            /\ QueryByEmail(l.email) # None
               => last' = AlreadyRegistered(c, Sent(l.email, l)) /\ Untouched
            /\ (QueryByEmail(l.email) = None /\ form = NoForm)
               => last' = SignupFormShown(c, Sent(l.email, l))
            /\ (QueryByEmail(l.email) = None /\ form # NoForm)
               => req'[c].op = CompleteSignupOp /\ req'[c].args = Sent(l.email, l)
    ]_vars

\* C17 witness: a signup link has passed the checks of complete_signup after
\* the admin changed user 2's role and deactivated user 2's account.
SignupAfterActivity ==
    \E c \in Clients, l \in SignupLinks :
        /\ req[c].op = CompleteSignupOp /\ req[c].args = Sent(l.email, l)
        /\ db[2].role = "tester" /\ db[2].name = AnonName(2)

\* C17 witness of the other outcome: an unexpired signup link is answered
\* "already registered" once a user has taken its address in manage.
SignupAddressTaken ==
    \E l \in SignupLinks :
        /\ last = AlreadyRegistered(last.c, Sent(l.email, l))
        /\ now <= l.at + Validity
        /\ Len(db) = 2

\* C18: no request removes a user (the users that exist keep existing, under
\* the same ids), and a deactivation overwrites the name, the email and the
\* password of the user it names with placeholders, leaving that user's role
\* and every other user as they were.
NoDeletion ==
    [][/\ Len(db') >= Len(db)
       /\ \A c \in Clients, uid \in UidInputs :
            (/\ last'.c = c /\ last'.op = "auth.deactivate"
             /\ deactivate(c, uid, TRUE)
             /\ db' # db)
            => LET usr == QueryById(uid)
               IN  /\ Len(db') = Len(db)
                   /\ db'[usr].name = AnonName(usr)
                   /\ db'[usr].email = AnonEmail(usr)
                   /\ db'[usr].password # db[usr].password
                   /\ \A password \in PasswordInputs :
                        ~is_password_valid(db'[usr].password, password)
                   /\ db'[usr].role = db[usr].role
                   /\ \A i \in Ids \ {usr} : db'[i] = db[i]
    ]_vars

\* C18 witness: user 2, whose role the admin had changed, has been
\* deactivated: the role is kept, the admin's row is as it was, and a third
\* user has signed up since.
DeactivatedInPlace ==
    /\ Len(db) = 3
    /\ db[2].name = AnonName(2) /\ db[2].email = AnonEmail(2) /\ db[2].role = "tester"
    /\ db[1].name = Name1 /\ db[1].email = EmailA

\* C19: a user's role changes only in a role request for that user made by a
\* client logged in as an admin; a user is created with the role user; so
\* nothing that users who are not admins do (login, signup, reset, manage,
\* deactivate, logout, or role itself) changes anybody's role.
NoEscalation ==
    [][/\ \A i \in Ids :
            db'[i].role # db[i].role
            => \E c \in Clients :
                 /\ before_app_request(c) # None
                 /\ db[before_app_request(c)].role = "admin"
                 /\ last'.c = c /\ last'.op = "auth.role" /\ last'.status = "redirect"
                 /\ last'.args = <<Str(i)>>
                 /\ db'[i].role = last'.form[1][1]
       /\ \A i \in (1..Len(db')) \ Ids : db'[i].role = "user"
    ]_vars

\* C19 witness: the admin has made user 2 an admin.
PromotedByAdmin ==
    /\ last.op = "auth.role" /\ last.status = "redirect" /\ last.args = <<Str(2)>>
    /\ before_app_request(last.c) = 1
    /\ db[1].role = "admin" /\ db[2].role = "admin"

\* C20: a request puts the id of a user X in the client's session slot only
\* if it is a login that gave X's email with a password of which X's stored
\* hash is a hash, a complete_reset that had passed the expiry and MAC check
\* with a link made for X and writes X's password, or a complete_signup that
\* creates X; any other request, a refused login or a refused link among
\* them, leaves the slot as it was or empties it.
SessionNeedsProof ==
    [][\A c \in Clients :
         (session'[c] # session[c] /\ session'[c] # Absent)
         => LET X == session'[c]
            IN  \/ /\ last'.c = c /\ last'.op = "auth.login" /\ last'.form # NoForm
                   /\ X \in Ids
                   /\ db[X].email = last'.form[1]
                   /\ \E salt \in 0..MaxNonce + 1 :
                        db[X].password = generate_hash(last'.form[2], salt)
                \/ /\ complete_reset_commit(c)
                   /\ req[c].user = X
                   /\ \E l \in ResetLinks : l.usr = X /\ req[c].args = Sent(l.uid, l)
                   /\ db'[X].password = generate_hash(req[c].form[1], nonce)
                \/ /\ complete_signup_commit(c)
                   /\ X \notin Ids /\ X = Len(db')
                   /\ db'[X].email = req[c].args[1]
    ]_vars

\* C20 witness: one client holds user 2's id after resetting user 2's
\* password through a link, and the other client, giving user 2's email with
\* the old password, was refused and holds nothing.
RefusedLoginHoldsNothing ==
    \E c \in Clients, d \in Clients :
        /\ c # d
        /\ last.c = c /\ last.op = "auth.login" /\ last.status = "render"
        /\ last.form = <<EmailU, Pw1>>
        /\ session[c] = Absent
        /\ session[d] = 2 /\ db[2].password # generate_hash(Pw1, 0)
        /\ \E l \in ResetLinks : l.usr = 2

\* C21 (as claimed): what the client gets back from a validly submitted
\* reset form (status, redirect, flashed messages) is what it would get back
\* for any other email under the same answer of the mailer, whether or not a
\* user has the email submitted.
NoExistenceOracle ==
    [][\A c \in Clients, email \in EmailInputs, other \in EmailInputs, ok \in BOOLEAN :
         (/\ last'.c = c /\ last'.op = "auth.reset"
          /\ reset(c, email, TRUE, ok)
          /\ ENABLED reset(c, other, TRUE, ok))
         => \E st \in {last'.status}, loc \in {last'.location}, f \in {last'.flash} :
              ENABLED (/\ reset(c, other, TRUE, ok)
                       /\ last'.status = st /\ last'.location = loc /\ last'.flash = f)
    ]_vars
====
